---- MODULE Spec2Model ----
(***************************************************************************)
(* Model of simpletransformers/conv_ai/conv_ai_model.py (ConvAIModel):     *)
(*   - sample_sequence, gpt/gpt2 path (lines 1348-1389): Spec, FairSpec    *)
(*     and, for two runs fed the same model outputs, SpecTwin;             *)
(*   - build_input_from_segments (lines 1232-1261): SpecBuild;             *)
(*   - load_and_cache_examples (lines 944-972) with pad_dataset            *)
(*     (lines 1263-1272): SpecLoad.                                        *)
(* Token ids are integers.  The tokenizer's ids of the five special        *)
(* tokens are the positions of the tokens in SPECIAL_TOKENS (line 76).     *)
(***************************************************************************)
EXTENDS Integers, Sequences, FiniteSets, TLC

\* ------------------------------------------------------------------------
\* Bounds of the model
\* ------------------------------------------------------------------------
\* args.max_length and args.min_length range over 0..MaxLength
MaxLength == 2
\* a probability is a multiple of 1/Quanta
Quanta == 4
\* build_input_from_segments is called with at most MaxPersona persona
\* sentences, MaxHistory history utterances, MaxTokens tokens in each
MaxPersona == 2
MaxHistory == 3
MaxTokens == 2
\* a dataset has at most MaxDialogs dialogs of at most MaxUtterances
\* utterances with at most MaxCandidates candidates each and a personality of
\* at most MaxPersonality sentences; args.personality_permutations is at
\* most MaxPermutations and args.max_history at most MaxMaxHistory
MaxDialogs == 2
MaxUtterances == 2
MaxCandidates == 2
MaxPersonality == 2
MaxPermutations == 3
MaxMaxHistory == 1

\* ------------------------------------------------------------------------
\* Tokens
\* ------------------------------------------------------------------------
bos == 0
eos == 1
speaker1 == 2
speaker2 == 3
pad == 4
\* tokenizer.convert_tokens_to_ids(SPECIAL_TOKENS), line 1348
special_tokens_ids == {bos, eos, speaker1, speaker2, pad}
\* the ordinary tokens the language model can emit
Words == {5, 6}
Vocab == special_tokens_ids \cup Words
\* the ignore sentinel of the labels (lines 1254-1258, 1269)
IGNORE == -100
\* "no token picked yet": the value of prev before line 1371 assigns it
NoToken == -1

VARIABLES
  \* ---- sample_sequence ----
  do_sample,        \* args.do_sample
  min_length,       \* args.min_length
  max_length,       \* args.max_length
  pc,               \* "for" (line 1352), "while" (line 1377), "done" (returned)
  i,                \* the loop index of line 1352
  current_output,   \* the list that is returned
  prev,             \* prev.item()
  probs,            \* the distribution of line 1369, inside the while loop
  warned,           \* whether warnings.warn (line 1379) was called
  twin,             \* a second run of sample_sequence (SpecTwin only)
  \* ---- build_input_from_segments ----
  persona,          \* the persona argument (in SpecLoad: the local of line 949)
  history,          \* the history argument
  reply,            \* the reply argument
  labels,           \* the labels argument
  with_eos,         \* the with_eos argument
  instance,         \* the returned dictionary
  bpc,              \* "call" before the call, "returned" after it
  \* ---- load_and_cache_examples ----
  dataset,                  \* what get_dataset returns (line 931)
  args_num_candidates,      \* args.num_candidates
  personality_permutations, \* args.personality_permutations
  max_history,              \* args.max_history
  evaluate,                 \* the evaluate argument
  num_candidates,           \* the local of lines 945-947
  lpc,                      \* "start", "loop" (lines 948-964), "pad", "done"
  dialog,                   \* the index in dataset of the dialog of line 948
  permutation,              \* the number of finished passes of line 950
  utterance,                \* the index of the next utterance of line 951
  datasets,                 \* the defaultdict of line 944
  \* ---- top_filtering ----
  logits,           \* the tensor passed as the logits argument
  given,            \* the values logits held when top_filtering was called
  top_k,            \* the top_k argument
  top_p,            \* the top_p argument, in units of 1 / Quanta
  threshold,        \* the threshold argument
  sorted_indices,   \* what torch.sort returns at line 1303
  filtered,         \* the returned tensor
  fpc,              \* "call" before the call, "returned" after it
  \* ---- train_model and train ----
  model_type,               \* self.args.model_type
  dir_not_empty,            \* os.path.exists(output_dir) and os.listdir(output_dir)
  overwrite_output_dir,     \* self.args.overwrite_output_dir
  optimizer,                \* args.optimizer
  scheduler,                \* args.scheduler
  evaluate_during_training, \* self.args.evaluate_during_training
  tpc,                      \* the next step of train_model, or "raised", "done"
  loads,                    \* the calls of load_and_cache_examples so far
  dir_made,                 \* whether os.makedirs(output_dir) was called
  forwards,                 \* the forward passes so far
  saved,                    \* whether save_model was called
  \* ---- interact and interact_single ----
  entry,                \* "interact" or "interact_single"
  encode_history,       \* the encode_history argument of interact_single
  skip_special_tokens,  \* self.args.skip_special_tokens
  first_history,        \* the history given to the first call
  turn_history,         \* interact: the local history; interact_single: the
                        \*   history returned by the latest call, which the
                        \*   caller passes to the next one
  message,              \* the latest raw_text / message
  sampled_history,      \* the history passed to the latest sample_sequence call
  out_ids,              \* what that call returned
  out_text,             \* the latest out_text
  spoken,               \* every utterance so far in token form, oldest first
  turns,                \* the number of finished turns
  \* ---- the loop of train ----
  len_dataloader,                  \* len(train_dataloader)
  gradient_accumulation_steps,     \* args.gradient_accumulation_steps
  num_train_epochs,                \* args.num_train_epochs
  evaluate_during_training_steps,  \* args.evaluate_during_training_steps
  evaluate_each_epoch,             \* args.evaluate_each_epoch
  use_early_stopping,              \* args.use_early_stopping
  early_stopping_patience,         \* args.early_stopping_patience
  early_stopping_metric_minimize,  \* args.early_stopping_metric_minimize
  early_stopping_delta,            \* args.early_stopping_delta
  tlp,                    \* "batch", "epoch_end", "stopped" (the return of
                          \*   lines 666/700), "returned" (line 781), "raised"
  epoch_number,           \* the finished epochs
  step,                   \* the batches of the current epoch done so far
  global_step,            \* the local of line 460
  optimizer_steps,        \* the calls of optimizer.step()
  scheduler_steps,        \* the calls of scheduler.step()
  best_eval_metric,       \* the local of line 468
  early_stopping_counter, \* the local of line 469
  results,                \* results[args.early_stopping_metric] of the latest
                          \*   evaluation
  seen_metrics            \* the values of that metric in all evaluations so far

decVars == <<do_sample, min_length, max_length, pc, i, current_output, prev,
             probs, warned>>
buildVars == <<history, reply, labels, with_eos, instance, bpc>>
loadVars == <<dataset, args_num_candidates, personality_permutations,
              max_history, evaluate, num_candidates, lpc, dialog, permutation,
              utterance, datasets>>
filterVars == <<logits, given, top_k, top_p, threshold, sorted_indices, filtered, fpc>>
trainVars == <<model_type, dir_not_empty, overwrite_output_dir, optimizer,
               scheduler, evaluate_during_training, tpc, loads, dir_made,
               forwards, saved>>
loopVars == <<len_dataloader, gradient_accumulation_steps, num_train_epochs,
              evaluate_during_training_steps, evaluate_each_epoch,
              use_early_stopping, early_stopping_patience,
              early_stopping_metric_minimize, early_stopping_delta, tlp,
              epoch_number, step, global_step, optimizer_steps,
              scheduler_steps, best_eval_metric, early_stopping_counter,
              results, seen_metrics>>
chatVars == <<entry, encode_history, skip_special_tokens, first_history,
              turn_history, message, sampled_history, out_ids, out_text,
              spoken, turns>>
vars == <<decVars, twin, persona, buildVars, loadVars, filterVars, trainVars,
          chatVars, loopVars>>

\* ------------------------------------------------------------------------
\* Distributions: F.softmax(top_filtering(logits)) of line 1369 can be any
\* distribution over the vocabulary; d[t] / Quanta is the probability of t.
\* ------------------------------------------------------------------------
\* the functions from S to 0..q whose values add up to q
RECURSIVE Shares(_, _)
Shares(S, q) ==
  IF S = {} THEN (IF q = 0 THEN {<< >>} ELSE {})
  ELSE LET t == CHOOSE x \in S : TRUE IN
       UNION {{(t :> w) @@ r : r \in Shares(S \ {t}, q - w)} : w \in 0..q}

Dists == Shares(Vocab, Quanta)

\* probs is unset outside the while loop
NoDist == [t \in Vocab |-> 0]

\* the tokens torch.multinomial(probs, 1) can return (lines 1374, 1383)
Support(d) == {t \in Vocab : d[t] > 0}

\* probs.max().item() (line 1378), in units of 1/Quanta
MaxProb(d) == CHOOSE m \in 0..Quanta :
                (\E t \in Vocab : d[t] = m) /\ (\A t \in Vocab : d[t] <= m)

\* torch.topk(probs, 1)[1] (line 1372): a deterministic function of probs;
\* among equal maxima the lowest index
ArgMax(d) == CHOOSE t \in Vocab :
               d[t] = MaxProb(d) /\ (\A u \in Vocab : d[u] = MaxProb(d) => t <= u)

\* the first pick of an iteration, lines 1371-1375
FirstPicks(d) == IF do_sample THEN Support(d) ELSE {ArgMax(d)}

\* line 1378: probs.max().item() == 1
SaturatedLoose(d) == MaxProb(d) >= Quanta - 1
Saturated(d) == MaxProb(d) = Quanta

\* ------------------------------------------------------------------------
\* One run of sample_sequence as a record
\* ------------------------------------------------------------------------
Self == [pc |-> pc, i |-> i, current_output |-> current_output, prev |-> prev,
         probs |-> probs, warned |-> warned]

SetSelf(s) ==
  /\ pc' = s.pc
  /\ i' = s.i
  /\ current_output' = s.current_output
  /\ prev' = s.prev
  /\ probs' = s.probs
  /\ warned' = s.warned

StartRun == [pc |-> "for", i |-> 0, current_output |-> << >>, prev |-> NoToken,
             probs |-> NoDist, warned |-> FALSE]

\* lines 1385-1387 and the back edge of the for loop; the tensors of the
\* iteration are dead after them
CheckAppendsFirst(s) ==
  IF s.prev \in special_tokens_ids
    THEN [s EXCEPT !.pc = "done", !.probs = NoDist,
                   !.current_output = Append(@, s.prev)]
    ELSE [s EXCEPT !.current_output = Append(@, s.prev), !.i = @ + 1,
                   !.pc = "for", !.probs = NoDist, !.prev = NoToken]
Check(s) ==
  IF s.prev \in special_tokens_ids
    THEN [s EXCEPT !.pc = "done", !.probs = NoDist]
    ELSE [s EXCEPT !.current_output = Append(@, s.prev), !.i = @ + 1,
                   !.pc = "for", !.probs = NoDist, !.prev = NoToken]

\* lines 1353-1376 of one iteration whose model output is d and whose first
\* pick is p: enter the while loop, or go on to line 1385
Picked(s, d, p) ==
  LET t == [s EXCEPT !.probs = d, !.prev = p] IN
  IF s.i < min_length /\ p \in special_tokens_ids
    THEN [t EXCEPT !.pc = "while"]
    ELSE Check(t)

\* one pass of the while loop, lines 1377-1383, entered with prev a special
\* token; p is what torch.multinomial returns when line 1383 is reached
WhilePass(s, p) ==
  IF Saturated(s.probs)
    THEN Check([s EXCEPT !.warned = TRUE])
    ELSE IF p \in special_tokens_ids
           THEN [s EXCEPT !.prev = p]
           ELSE Check([s EXCEPT !.prev = p])

\* ------------------------------------------------------------------------
\* sample_sequence: one run
\* ------------------------------------------------------------------------
DecodeInit ==
  /\ do_sample \in BOOLEAN
  /\ min_length \in 0..MaxLength
  /\ max_length \in 0..MaxLength
  /\ pc = "for"
  /\ i = 0
  /\ current_output = << >>
  /\ prev = NoToken
  /\ probs = NoDist
  /\ warned = FALSE

TwinIdle == twin = StartRun

\* the operations that are not called stay where they are
NoInstance == [input_ids |-> << >>, token_type_ids |-> << >>, mc_token_ids |-> 0,
               labels |-> << >>]

BuildIdle ==
  /\ history = << >>
  /\ reply = << >>
  /\ labels = FALSE
  /\ with_eos = FALSE
  /\ instance = NoInstance
  /\ bpc = "idle"

DecodeIdle ==
  /\ do_sample = FALSE
  /\ min_length = 0
  /\ max_length = 0
  /\ pc = "idle"
  /\ i = 0
  /\ current_output = << >>
  /\ prev = NoToken
  /\ probs = NoDist
  /\ warned = FALSE

\* datasets before the first append: a defaultdict(list)
NoDatasets == [input_ids |-> << >>, token_type_ids |-> << >>,
               mc_token_ids |-> << >>, labels |-> << >>, mc_labels |-> << >>,
               n_candidates |-> 0]

LoadIdle ==
  /\ dataset = << >>
  /\ args_num_candidates = 0
  /\ personality_permutations = 0
  /\ max_history = 0
  /\ evaluate = FALSE
  /\ num_candidates = 0
  /\ lpc = "idle"
  /\ dialog = 0
  /\ permutation = 0
  /\ utterance = 0
  /\ datasets = NoDatasets

\* best_eval_metric = None, line 468
NoMetric == -1

LoopIdle ==
  /\ len_dataloader = 0
  /\ gradient_accumulation_steps = 1
  /\ num_train_epochs = 0
  /\ evaluate_during_training_steps = 0
  /\ evaluate_each_epoch = FALSE
  /\ use_early_stopping = FALSE
  /\ early_stopping_patience = 0
  /\ early_stopping_metric_minimize = FALSE
  /\ early_stopping_delta = 0
  /\ tlp = "idle"
  /\ epoch_number = 0
  /\ step = 0
  /\ global_step = 0
  /\ optimizer_steps = 0
  /\ scheduler_steps = 0
  /\ best_eval_metric = NoMetric
  /\ early_stopping_counter = 0
  /\ results = NoMetric
  /\ seen_metrics = {}

ChatIdle ==
  /\ entry = "idle"
  /\ encode_history = FALSE
  /\ skip_special_tokens = FALSE
  /\ first_history = << >>
  /\ turn_history = << >>
  /\ message = << >>
  /\ sampled_history = << >>
  /\ out_ids = << >>
  /\ out_text = << >>
  /\ spoken = << >>
  /\ turns = 0

TrainIdle ==
  /\ model_type = "gpt"
  /\ dir_not_empty = FALSE
  /\ overwrite_output_dir = FALSE
  /\ optimizer = "AdamW"
  /\ scheduler = "linear_schedule_with_warmup"
  /\ evaluate_during_training = FALSE
  /\ tpc = "idle"
  /\ loads = 0
  /\ dir_made = FALSE
  /\ forwards = 0
  /\ saved = FALSE

FilterIdle ==
  /\ logits = << >>
  /\ given = << >>
  /\ top_k = 0
  /\ top_p = 0
  /\ threshold = 0
  /\ sorted_indices = << >>
  /\ filtered = << >>
  /\ fpc = "idle"

EncoderUnchanged ==
  UNCHANGED <<persona, buildVars, loadVars, filterVars, trainVars, chatVars, loopVars>>

ArgsUnchanged == UNCHANGED <<do_sample, min_length, max_length>>

\* one iteration of the for loop up to the while loop or to the back edge
Forward ==
  /\ pc = "for"
  /\ i < max_length
  /\ \E d \in Dists : \E p \in FirstPicks(d) : SetSelf(Picked(Self, d, p))
  /\ ArgsUnchanged
  /\ UNCHANGED twin
  /\ EncoderUnchanged

\* a pass of the while loop that draws token p (if it draws)
WhileDraw(p) ==
  /\ pc = "while"
  /\ p \in Support(probs)
  /\ SetSelf(WhilePass(Self, p))
  /\ ArgsUnchanged
  /\ UNCHANGED twin
  /\ EncoderUnchanged

While == \E p \in Vocab : WhileDraw(p)

\* a pass of the while loop that draws an ordinary token
WhileDrawWord == \E p \in Words : ~Saturated(probs) /\ WhileDraw(p)

\* range(args.max_length) is exhausted: line 1389
Return ==
  /\ pc = "for"
  /\ i >= max_length
  /\ pc' = "done"
  /\ UNCHANGED <<i, current_output, prev, probs, warned, twin>>
  /\ ArgsUnchanged
  /\ EncoderUnchanged

Init ==
  /\ DecodeInit /\ TwinIdle /\ persona = << >>
  /\ BuildIdle /\ LoadIdle /\ FilterIdle /\ TrainIdle /\ ChatIdle /\ LoopIdle

Next == Forward \/ While \/ Return

Spec == Init /\ [][Next]_vars

\* Every enabled step is eventually taken, and a token that every draw has
\* a positive probability of returning is eventually drawn.
FairSpec == Spec /\ WF_vars(Next) /\ SF_vars(WhileDrawWord)

\* ------------------------------------------------------------------------
\* sample_sequence: two runs with the same persona, history and model.  The
\* model is a function of its input, so the two runs get the same
\* distribution whenever they call it with the same current_output; a run
\* waits for the other to leave its while loop before it calls the model.
\* ------------------------------------------------------------------------
TwinInit == Init /\ do_sample = FALSE

SameInput == pc = "for" /\ twin.pc = "for" /\ current_output = twin.current_output

TwinForward ==
  /\ SameInput
  /\ i < max_length
  /\ \E d \in Dists : \E p \in FirstPicks(d) : \E q \in FirstPicks(d) :
       /\ SetSelf(Picked(Self, d, p))
       /\ twin' = Picked(twin, d, q)
  /\ ArgsUnchanged
  /\ EncoderUnchanged

SoloForward ==
  /\ ~SameInput
  /\ twin.pc # "while"
  /\ Forward

TwinSoloForward ==
  /\ ~SameInput
  /\ pc # "while"
  /\ twin.pc = "for"
  /\ twin.i < max_length
  /\ \E d \in Dists : \E q \in FirstPicks(d) : twin' = Picked(twin, d, q)
  /\ UNCHANGED decVars
  /\ EncoderUnchanged

TwinWhile ==
  /\ twin.pc = "while"
  /\ \E q \in Support(twin.probs) : twin' = WhilePass(twin, q)
  /\ UNCHANGED decVars
  /\ EncoderUnchanged

TwinReturn ==
  /\ twin.pc = "for"
  /\ twin.i >= max_length
  /\ twin' = [twin EXCEPT !.pc = "done"]
  /\ UNCHANGED decVars
  /\ EncoderUnchanged

TwinNext ==
  \/ TwinForward
  \/ SoloForward
  \/ TwinSoloForward
  \/ While
  \/ TwinWhile
  \/ Return
  \/ TwinReturn

SpecTwin == TwinInit /\ [][TwinNext]_vars

\* ------------------------------------------------------------------------
\* Claims about sample_sequence
\* ------------------------------------------------------------------------
Min(a, b) == IF a <= b THEN a ELSE b

\* C1: sample_sequence terminates for every model output distribution: every
\* run reaches its return statement, also from inside the while loop.
C1_Terminates == <>(pc = "done")

\* C2: with do_sample = False two runs with the same inputs and the same
\* model outputs return the same token sequence.
C2_SameResult ==
  (~do_sample /\ pc = "done" /\ twin.pc = "done")
    => current_output = twin.current_output

\* C3: a control token picked at an iteration i < min_length ends the
\* generation only if the distribution of that iteration has maximum
\* probability exactly 1, and then the warning is emitted; so a result
\* shorter than min(min_length, max_length) was ended by a control token
\* with a warning, and a run without warning returns at least
\* min(min_length, max_length) tokens.
C3_EarlyBreak ==
  (pc' = "done" /\ pc # "done" /\ prev' \in special_tokens_ids /\ i < min_length)
    => /\ pc = "while"
       /\ \E t \in Vocab : probs[t] = Quanta
       /\ warned'

C3_ShortResult ==
  pc = "done" =>
    /\ Len(current_output) < Min(min_length, max_length)
         => (warned /\ prev \in special_tokens_ids)
    /\ ~warned => Len(current_output) >= Min(min_length, max_length)

C3_SaturatedOnly == [][C3_EarlyBreak]_vars /\ []C3_ShortResult

C3_Witness ==
  /\ pc = "done"
  /\ warned
  /\ prev \in special_tokens_ids
  /\ Len(current_output) = 1
  /\ Len(current_output) < Min(min_length, max_length)

\* C4: called without an initial current_output, the accumulated output
\* never holds a control token, is never longer than max_length, and the
\* step that ends the loop on a control token, like every step after it,
\* appends nothing.
C4_OutputClean ==
  /\ \A k \in 1..Len(current_output) : current_output[k] \notin special_tokens_ids
  /\ Len(current_output) <= max_length

C4_BreakAppendsNothing ==
  (pc = "done" \/ (pc' = "done" /\ prev' \in special_tokens_ids))
    => current_output' = current_output

C4_NoControlToken == []C4_OutputClean /\ [][C4_BreakAppendsNothing]_vars

C4_Witness ==
  /\ pc = "done"
  /\ prev \in special_tokens_ids
  /\ Len(current_output) >= 1
  /\ ~warned

\* ------------------------------------------------------------------------
\* build_input_from_segments (lines 1232-1261)
\* ------------------------------------------------------------------------
\* list(chain(*seqs))
RECURSIVE Flatten(_)
Flatten(seqs) ==
  IF seqs = << >> THEN << >> ELSE Head(seqs) \o Flatten(Tail(seqs))

\* [x] * n
Repeat(x, n) == [k \in 1..n |-> x]

\* sum(len(s) for s in seqs)
RECURSIVE TotalLen(_)
TotalLen(seqs) ==
  IF seqs = << >> THEN 0 ELSE Len(Head(seqs)) + TotalLen(Tail(seqs))

\* lines 1239-1243: the persona block, the history, the reply
RawSequence(p, h, r, we) ==
  << <<bos>> \o Flatten(p) >> \o h \o << r \o (IF we THEN <<eos>> ELSE << >>) >>

\* lines 1244-1247: every segment but the first gets a speaker token;
\* enumerate(sequence[1:]) counts from 0, so the k-th segment of
\* sequence[1:] (k from 1) has i = k - 1
PrefixedByIndex(raw) ==
  <<raw[1]>> \o
  [k \in 1..(Len(raw) - 1) |->
     <<IF (k - 1) % 2 # 0 THEN speaker2 ELSE speaker1>> \o raw[k + 1]]
Prefixed(raw) ==
  <<raw[1]>> \o
  [k \in 1..(Len(raw) - 1) |->
     <<IF (Len(raw) - (k - 1)) % 2 # 0 THEN speaker2 ELSE speaker1>> \o raw[k + 1]]

\* a variant of lines 1250-1252 with the two speakers exchanged
TokenTypeIdsExchanged(sequence) ==
  Flatten([k \in 1..Len(sequence) |->
             Repeat(IF (k - 1) % 2 # 0 THEN speaker1 ELSE speaker2,
                    Len(sequence[k]))])

\* lines 1250-1252: enumerate(sequence) counts from 0
TokenTypeIds(sequence) ==
  Flatten([k \in 1..Len(sequence) |->
             Repeat(IF (k - 1) % 2 # 0 THEN speaker2 ELSE speaker1,
                    Len(sequence[k]))])

\* lines 1256-1260
GoldLabelsWithRole(sequence) ==
  Repeat(IGNORE, TotalLen(SubSeq(sequence, 1, Len(sequence) - 1)))
    \o sequence[Len(sequence)]
GoldLabelsShort(sequence) ==
  Repeat(IGNORE, TotalLen(SubSeq(sequence, 1, Len(sequence) - 1)))
    \o Tail(sequence[Len(sequence)])
GoldLabels(sequence) ==
  Repeat(IGNORE, TotalLen(SubSeq(sequence, 1, Len(sequence) - 1)))
    \o <<IGNORE>> \o Tail(sequence[Len(sequence)])

\* the returned instance
BuildInput(p, h, r, lab, we) ==
  LET sequence == Prefixed(RawSequence(p, h, r, we))
      input_ids == Flatten(sequence)
  IN [input_ids |-> input_ids,
      token_type_ids |-> TokenTypeIds(sequence),
      mc_token_ids |-> Len(input_ids) - 1,
      labels |-> IF lab THEN GoldLabels(sequence)
                 ELSE Repeat(IGNORE, Len(input_ids))]

\* the sequences of at most n elements of S
SeqsUpTo(S, n) == UNION {[1..m -> S] : m \in 0..n}

\* a token sequence of n tokens, numbered from base + 1
Tokens(base, n) == [k \in 1..n |-> base + k]

PersonaSentences == {Tokens(4, n) : n \in 0..MaxTokens}
HistoryUtterances == {Tokens(6, n) : n \in 0..MaxTokens}
Replies == {Tokens(9, n) : n \in 0..MaxTokens}

BuildInit ==
  /\ persona \in SeqsUpTo(PersonaSentences, MaxPersona)
  /\ history \in SeqsUpTo(HistoryUtterances, MaxHistory)
  /\ reply \in Replies
  /\ labels \in BOOLEAN
  /\ with_eos \in BOOLEAN
  /\ instance = NoInstance
  /\ bpc = "call"
  /\ DecodeIdle
  /\ TwinIdle
  /\ LoadIdle
  /\ FilterIdle
  /\ TrainIdle
  /\ ChatIdle
  /\ LoopIdle

Build ==
  /\ bpc = "call"
  /\ instance' = BuildInput(persona, history, reply, labels, with_eos)
  /\ bpc' = "returned"
  /\ UNCHANGED <<decVars, twin, persona, history, reply, labels, with_eos>>
  /\ UNCHANGED <<loadVars, filterVars, trainVars, chatVars, loopVars>>

BuildNext == Build

SpecBuild == BuildInit /\ [][BuildNext]_vars

\* ------------------------------------------------------------------------
\* Claims about build_input_from_segments, stated on the arguments and the
\* returned instance
\* ------------------------------------------------------------------------
\* the length of the persona block: <bos> and the persona's tokens
BlockLen == 1 + TotalLen(persona)

\* the non-persona segments are numbered 1..Len(history) + 1, the reply last
ReplySeg == Len(history) + 1

\* the number of tokens of segment k after its speaker token
SegBody(k) ==
  IF k <= Len(history) THEN Len(history[k])
  ELSE Len(reply) + (IF with_eos THEN 1 ELSE 0)

\* the position in input_ids (from 1) of the first token of segment k
SegStart(k) == BlockLen + TotalLen(SubSeq(history, 1, k - 1)) + (k - 1) + 1

Returned == bpc = "returned"

\* C5: the three lists of the instance have the same length and
\* mc_token_ids is the index of the last token.
C5_Aligned ==
  Returned =>
    /\ Len(instance.input_ids) = Len(instance.token_type_ids)
    /\ Len(instance.input_ids) = Len(instance.labels)
    /\ instance.mc_token_ids = Len(instance.input_ids) - 1

C5_Witness ==
  /\ Returned
  /\ labels
  /\ with_eos
  /\ Len(persona) = 2
  /\ Len(history) >= 2
  /\ reply # << >>
  /\ Len(instance.labels) = BlockLen + TotalLen(history) + Len(history) + Len(reply) + 2

\* C6: every non-persona segment starts with a speaker token, adjacent
\* segments start with different speaker tokens, and the reply starts with
\* the same speaker token (speaker1) whatever the history length.
C6_Roles ==
  Returned =>
    /\ \A k \in 1..ReplySeg :
         instance.input_ids[SegStart(k)] \in {speaker1, speaker2}
    /\ \A k \in 1..(ReplySeg - 1) :
         instance.input_ids[SegStart(k)] # instance.input_ids[SegStart(k + 1)]
    /\ instance.input_ids[SegStart(ReplySeg)] = speaker1

C6_Witness ==
  /\ Returned
  /\ Len(history) = 3
  /\ instance.input_ids[SegStart(1)] = speaker2
  /\ instance.input_ids[SegStart(2)] = speaker1
  /\ instance.input_ids[SegStart(4)] = speaker1

\* the positions of the reply's own tokens
ReplyPositions ==
  {SegStart(ReplySeg) + k : k \in 1..Len(reply)}

\* the position of the <eos> appended to the reply, if one is
EosPositions ==
  IF with_eos THEN {SegStart(ReplySeg) + Len(reply) + 1} ELSE {}

Labelled == {n \in 1..Len(instance.labels) : instance.labels[n] # IGNORE}

\* C7 as claimed: in a gold instance the labelled positions are exactly the
\* positions of the reply's own tokens, and the label there is the token.
C7_ReplyOnly ==
  (Returned /\ labels) =>
    /\ Labelled = ReplyPositions
    /\ \A n \in Labelled : instance.labels[n] = instance.input_ids[n]

\* C7 as amended: in a gold instance the labelled positions are exactly the
\* positions of the reply's own tokens and, when with_eos, of the <eos>
\* appended to the reply; the label there is the token.
C7_ReplyAndEos ==
  (Returned /\ labels) =>
    /\ Labelled = ReplyPositions \cup EosPositions
    /\ \A n \in Labelled : instance.labels[n] = instance.input_ids[n]

C7_Witness ==
  /\ Returned
  /\ labels
  /\ with_eos
  /\ Len(reply) = 2
  /\ Len(history) >= 1
  /\ Cardinality(Labelled) = 3

\* C9: the token_type_ids of all tokens of a non-persona segment equal the
\* speaker token that starts the segment.
C9_TypesFollowRoles ==
  Returned =>
    \A k \in 1..ReplySeg : \A n \in SegStart(k)..(SegStart(k) + SegBody(k)) :
      instance.token_type_ids[n] = instance.input_ids[SegStart(k)]

\* ------------------------------------------------------------------------
\* load_and_cache_examples (lines 944-972) and pad_dataset (lines 1263-1272)
\* ------------------------------------------------------------------------
\* xs[-n:] for n >= 0: the last n elements, and the whole list for n = 0 or
\* n >= len(xs)
FirstN(xs, n) == IF n >= Len(xs) THEN xs ELSE SubSeq(xs, 1, n)
LastN(xs, n) ==
  IF n = 0 \/ n >= Len(xs) THEN xs ELSE SubSeq(xs, Len(xs) - n + 1, Len(xs))

\* max(len(x) for x in xs)
MaxLen(xs) ==
  CHOOSE m \in {Len(xs[k]) : k \in 1..Len(xs)} :
    \A k \in 1..Len(xs) : Len(xs[k]) <= m

\* lines 945-947
NumCandidates(ds, limit, eval) ==
  LET n == Len(ds[1].utterances[1].candidates) IN
  IF limit > 0 /\ ~eval THEN Min(limit, n) ELSE n

\* line 956, j counted from 0
IsGoldFirst(j, n) == j = 0
IsGold(j, n) == j = n - 1

\* lines 952-959: the instances of one utterance
Instances(pers, utt, n, mh) ==
  LET hist == LastN(utt.history, 2 * mh + 1)
      cands == LastN(utt.candidates, n)
  IN [j \in 1..Len(cands) |->
        BuildInput(pers, hist, cands[j], IsGold(j - 1, n), TRUE)]

\* lines 960-963: the instances and the turn are recorded
Recorded(ds, insts, n) ==
  [input_ids |-> ds.input_ids \o [j \in 1..Len(insts) |-> insts[j].input_ids],
   token_type_ids |->
     ds.token_type_ids \o [j \in 1..Len(insts) |-> insts[j].token_type_ids],
   mc_token_ids |->
     ds.mc_token_ids \o [j \in 1..Len(insts) |-> insts[j].mc_token_ids],
   labels |-> ds.labels \o [j \in 1..Len(insts) |-> insts[j].labels],
   mc_labels |-> Append(ds.mc_labels, n - 1),
   n_candidates |-> n]

\* line 964
Unrotated(pers) == pers
Rotated(pers) == <<pers[Len(pers)]>> \o SubSeq(pers, 1, Len(pers) - 1)

\* a variant of pad_dataset that fills every column with the padding id
PadDatasetOneFill(ds, padding) ==
  LET max_l == MaxLen(ds.input_ids)
      Padded(xs, fill) ==
        [k \in 1..Len(xs) |-> xs[k] \o Repeat(fill, max_l - Len(xs[k]))]
  IN [ds EXCEPT !.input_ids = Padded(@, padding),
                !.labels = Padded(@, padding),
                !.token_type_ids = Padded(@, padding)]

\* a variant of pad_dataset that puts the fill values in front
PadDatasetLeft(ds, padding) ==
  LET max_l == MaxLen(ds.input_ids)
      Padded(xs, fill) ==
        [k \in 1..Len(xs) |-> Repeat(fill, max_l - Len(xs[k])) \o xs[k]]
  IN [ds EXCEPT !.input_ids = Padded(@, padding),
                !.labels = Padded(@, IGNORE),
                !.token_type_ids = Padded(@, padding)]

\* pad_dataset, lines 1266-1272
PadDataset(ds, padding) ==
  LET max_l == MaxLen(ds.input_ids)
      Padded(xs, fill) ==
        [k \in 1..Len(xs) |-> xs[k] \o Repeat(fill, max_l - Len(xs[k]))]
  IN [ds EXCEPT !.input_ids = Padded(@, padding),
                !.labels = Padded(@, IGNORE),
                !.token_type_ids = Padded(@, padding)]

\* The datasets: every dialog has a personality of p sentences and, for its
\* u-th utterance, a history of 2u - 1 utterances and ns[u] candidates.
PersonalityOf(p) == [k \in 1..p |-> <<4 + k, 5 + k>>]
HistoryOf(h) == [j \in 1..h |-> IF j = h THEN <<7, 8, 9>> ELSE <<6 + j>>]
CandidatesOf(n) == [j \in 1..n |-> <<8 + 2 * j, 9 + 2 * j>>]
DialogOf(p, ns) ==
  [personality |-> PersonalityOf(p),
   utterances |-> [u \in 1..Len(ns) |->
                     [history |-> HistoryOf(2 * u - 1),
                      candidates |-> CandidatesOf(ns[u])]]]
CandidateCounts == SeqsUpTo(1..MaxCandidates, MaxUtterances) \ {<< >>}
Datasets ==
  {[d \in 1..nd |-> DialogOf(p, ns)] :
     nd \in 1..MaxDialogs, p \in 1..MaxPersonality, ns \in CandidateCounts}

LoadInit ==
  /\ dataset \in Datasets
  /\ args_num_candidates \in 0..MaxCandidates
  /\ personality_permutations \in 1..MaxPermutations
  /\ max_history \in 0..MaxMaxHistory
  /\ evaluate \in BOOLEAN
  /\ num_candidates = 0
  /\ lpc = "start"
  /\ dialog = 0
  /\ permutation = 0
  /\ utterance = 0
  /\ datasets = NoDatasets
  /\ persona = << >>
  /\ BuildIdle
  /\ DecodeIdle
  /\ TwinIdle
  /\ FilterIdle
  /\ TrainIdle
  /\ ChatIdle
  /\ LoopIdle

LoadArgsUnchanged ==
  UNCHANGED <<dataset, args_num_candidates, personality_permutations,
              max_history, evaluate, decVars, twin, buildVars, filterVars,
              trainVars, chatVars, loopVars>>

\* lines 944-951: num_candidates, the first dialog, its first pass
LoadStart ==
  /\ lpc = "start"
  /\ num_candidates' = NumCandidates(dataset, args_num_candidates, evaluate)
  /\ dialog' = 1
  /\ persona' = dataset[1].personality
  /\ permutation' = 0
  /\ utterance' = 1
  /\ lpc' = "loop"
  /\ UNCHANGED datasets
  /\ LoadArgsUnchanged

\* lines 951-963 for one utterance
EncodeUtterance ==
  /\ lpc = "loop"
  /\ utterance <= Len(dataset[dialog].utterances)
  /\ datasets' = Recorded(datasets,
                          Instances(persona, dataset[dialog].utterances[utterance],
                                    num_candidates, max_history),
                          num_candidates)
  /\ utterance' = utterance + 1
  /\ UNCHANGED <<num_candidates, lpc, dialog, permutation, persona>>
  /\ LoadArgsUnchanged

\* line 964 at the end of a pass, then the next pass (line 950), the next
\* dialog (lines 948-949) or the end of the loops
EndPass ==
  /\ lpc = "loop"
  /\ utterance > Len(dataset[dialog].utterances)
  /\ IF permutation + 1 < personality_permutations
       THEN /\ persona' = Rotated(persona)
            /\ permutation' = permutation + 1
            /\ utterance' = 1
            /\ UNCHANGED <<dialog, lpc>>
       ELSE IF dialog < Len(dataset)
         THEN /\ persona' = dataset[dialog + 1].personality
              /\ dialog' = dialog + 1
              /\ permutation' = 0
              /\ utterance' = 1
              /\ UNCHANGED lpc
         ELSE /\ persona' = Rotated(persona)
              /\ permutation' = permutation + 1
              /\ lpc' = "pad"
              /\ UNCHANGED <<dialog, utterance>>
  /\ UNCHANGED <<num_candidates, datasets>>
  /\ LoadArgsUnchanged

\* lines 970-972
Pad ==
  /\ lpc = "pad"
  /\ datasets' = PadDataset(datasets, pad)
  /\ lpc' = "done"
  /\ UNCHANGED <<num_candidates, dialog, permutation, utterance, persona>>
  /\ LoadArgsUnchanged

LoadNext == LoadStart \/ EncodeUtterance \/ EndPass \/ Pad

SpecLoad == LoadInit /\ [][LoadNext]_vars

\* ------------------------------------------------------------------------
\* Claims about load_and_cache_examples
\* ------------------------------------------------------------------------
\* persona [[5, 6]], one turn with history [[7, 8, 9]] and candidates
\* [[10, 11], [12, 13]], num_candidates = 2, personality_permutations = 1
Scenario == <<DialogOf(1, <<2>>)>>

ScenarioDone ==
  /\ lpc = "done"
  /\ dataset = Scenario
  /\ args_num_candidates = 2
  /\ personality_permutations = 1

\* the positions of instance n whose label is not the ignore sentinel
LabelledIn(n) ==
  {k \in 1..Len(datasets.labels[n]) : datasets.labels[n][k] # IGNORE}

\* the positions of instance n that hold one of the tokens of T
Holding(n, T) ==
  {k \in 1..Len(datasets.input_ids[n]) : datasets.input_ids[n][k] \in T}

\* C8 as claimed: the scenario yields 2 instances, mc_labels = 1, an
\* all-ignore first instance, and a second instance labelled only where it
\* holds the tokens 12 and 13.
C8_ScenarioOnlyReply ==
  ScenarioDone =>
    /\ Len(datasets.input_ids) = 2
    /\ Len(datasets.labels) = 2
    /\ datasets.mc_labels = <<1>>
    /\ LabelledIn(1) = {}
    /\ LabelledIn(2) = Holding(2, {12, 13})

\* C8 as amended: the second instance is labelled only where it holds the
\* tokens 12 and 13 and the <eos> that ends the reply.
C8_ScenarioReplyAndEos ==
  ScenarioDone =>
    /\ Len(datasets.input_ids) = 2
    /\ Len(datasets.labels) = 2
    /\ datasets.mc_labels = <<1>>
    /\ LabelledIn(1) = {}
    /\ LabelledIn(2) = Holding(2, {12, 13, eos})
    /\ datasets.input_ids[1] = <<bos, 5, 6, speaker2, 7, 8, 9, speaker1, 10, 11, eos>>
    /\ datasets.input_ids[2] = <<bos, 5, 6, speaker2, 7, 8, 9, speaker1, 12, 13, eos>>

C8_Witness ==
  /\ ScenarioDone
  /\ ~evaluate
  /\ LabelledIn(2) = {9, 10, 11}

\* C10: the instances built for one turn hold exactly one gold instance,
\* the one built from the last candidate of the utterance; all the others
\* carry only ignore labels.  A turn is one step that adds an mc_labels entry.
C10_Turn ==
  Len(datasets'.mc_labels) = Len(datasets.mc_labels) + 1 =>
    LET new == (Len(datasets.labels) + 1)..Len(datasets'.labels)
        cands == dataset[dialog].utterances[utterance].candidates
        last == cands[Len(cands)] \o <<eos>>
        gold == {n \in new : \E k \in 1..Len(datasets'.labels[n]) :
                               datasets'.labels[n][k] # IGNORE}
    IN /\ Cardinality(gold) = 1
       /\ \A n \in gold :
            LET ids == datasets'.input_ids[n] IN
            /\ n = Len(datasets'.labels)
            /\ Len(ids) > Len(last)
            /\ SubSeq(ids, Len(ids) - Len(last) + 1, Len(ids)) = last

C10_OneGoldPerTurn == [][C10_Turn]_vars


\* ------------------------------------------------------------------------
\* pad_dataset (lines 1263-1272) as a function of its argument: the dataset
\* is any list of instances that build_input_from_segments returns, and the
\* function is applied to it and then to its own result
\* ------------------------------------------------------------------------
MaxInstances == 2

PadInstances ==
  {BuildInput(<< <<5>> >>, h, r, lab, TRUE) :
     h \in {<< >>, << <<7>> >>}, r \in Replies, lab \in BOOLEAN}

\* datasets[input_name].append(input_array) for every instance of insts
Collected(insts) ==
  [input_ids |-> [k \in 1..Len(insts) |-> insts[k].input_ids],
   token_type_ids |-> [k \in 1..Len(insts) |-> insts[k].token_type_ids],
   mc_token_ids |-> [k \in 1..Len(insts) |-> insts[k].mc_token_ids],
   labels |-> [k \in 1..Len(insts) |-> insts[k].labels],
   mc_labels |-> << >>,
   n_candidates |-> 0]

PadInputs == {Collected(insts) : insts \in SeqsUpTo(PadInstances, MaxInstances) \ {<< >>}}

PadInit ==
  /\ datasets \in PadInputs
  /\ lpc = "pad"
  /\ dataset = << >>
  /\ args_num_candidates = 0
  /\ personality_permutations = 0
  /\ max_history = 0
  /\ evaluate = FALSE
  /\ num_candidates = 0
  /\ dialog = 0
  /\ permutation = 0
  /\ utterance = 0
  /\ persona = << >>
  /\ BuildIdle
  /\ DecodeIdle
  /\ TwinIdle
  /\ FilterIdle
  /\ TrainIdle
  /\ ChatIdle
  /\ LoopIdle

\* pad_dataset applied to the dataset it returned
PadAgain ==
  /\ lpc = "done"
  /\ datasets' = PadDataset(datasets, pad)
  /\ lpc' = "again"
  /\ UNCHANGED <<num_candidates, dialog, permutation, utterance, persona>>
  /\ LoadArgsUnchanged

PadNext == Pad \/ PadAgain

SpecPad == PadInit /\ [][PadNext]_vars

\* new is old with fill values appended up to length m
PaddedTo(old, new, m, fill) ==
  /\ Len(new) = Len(old)
  /\ \A k \in 1..Len(old) :
       /\ Len(new[k]) = m
       /\ Len(old[k]) <= m
       /\ \A n \in 1..Len(old[k]) : new[k][n] = old[k][n]
       /\ \A n \in (Len(old[k]) + 1)..m : new[k][n] = fill

LongestInput(m) ==
  /\ \E k \in 1..Len(datasets.input_ids) : Len(datasets.input_ids[k]) = m
  /\ \A k \in 1..Len(datasets.input_ids) : Len(datasets.input_ids[k]) <= m

C11_PadStep ==
  lpc = "pad" /\ lpc' = "done" =>
    \E m \in 0..20 :
      /\ LongestInput(m)
      /\ PaddedTo(datasets.input_ids, datasets'.input_ids, m, pad)
      /\ PaddedTo(datasets.token_type_ids, datasets'.token_type_ids, m, pad)
      /\ PaddedTo(datasets.labels, datasets'.labels, m, IGNORE)
      /\ datasets'.mc_token_ids = datasets.mc_token_ids
      /\ datasets'.mc_labels = datasets.mc_labels

C11_EqualLength ==
  (lpc = "pad" /\ lpc' = "done"
     /\ \A k \in 1..Len(datasets.input_ids) :
          Len(datasets.input_ids[k]) = Len(datasets.input_ids[1]))
    => datasets' = datasets

C11_PaddedAgain == lpc = "done" /\ lpc' = "again" => datasets' = datasets

\* C11: pad_dataset only appends fill values: afterwards every sequence of
\* input_ids, token_type_ids and labels has the length of the longest
\* input_ids sequence, starts with its old content and ends with the padding
\* id (input_ids, token_type_ids) or -100 (labels); a dataset whose sequences
\* already have one length, and a dataset that was already padded, come back
\* unchanged.
C11_OnlyAppends == [][C11_PadStep /\ C11_EqualLength /\ C11_PaddedAgain]_vars

\* a padded dataset, padded once more, in which one sequence was extended and
\* another, with labelled positions, already had the longest length
C11_Witness ==
  /\ lpc = "again"
  /\ \E k, j \in 1..Len(datasets.input_ids) :
       /\ datasets.input_ids[k][Len(datasets.input_ids[k])] = pad
       /\ datasets.token_type_ids[k][Len(datasets.input_ids[k])] = pad
       /\ datasets.labels[k][Len(datasets.input_ids[k])] = IGNORE
       /\ datasets.input_ids[j][Len(datasets.input_ids[j])] = eos
       /\ datasets.labels[j][Len(datasets.input_ids[j])] = eos


\* ------------------------------------------------------------------------
\* top_filtering (lines 1274-1323).  A score is written as the weight
\* exp(score) that softmax gives it, a natural number: the comparisons of
\* the code keep their meaning, -inf is the weight 0, and
\* F.softmax(x)[j] = x[j] / sum(x).  top_p is top_p / Quanta.
\* ------------------------------------------------------------------------
VocabSize == 3
MaxScore == 3

\* filter_value, line 1279
NegInf == 0

Thresholds == {NegInf, 2}
TopKs == -1..(VocabSize + 1)
ScoreVectors == [1..VocabSize -> 0..MaxScore]

Finite(x) == {t \in DOMAIN x : x[t] # NegInf}

\* torch.topk(logits, k)[0][..., -1]: the k-th largest value
KthLargest(x, k) ==
  CHOOSE v \in {x[t] : t \in DOMAIN x} :
    /\ Cardinality({t \in DOMAIN x : x[t] > v}) < k
    /\ Cardinality({t \in DOMAIN x : x[t] >= v}) >= k

\* lines 1295-1299
TopK(x, k) ==
  LET kk == Min(k, Len(x)) IN
  IF kk > 0
    THEN [t \in DOMAIN x |-> IF x[t] < KthLargest(x, kk) THEN NegInf ELSE x[t]]
    ELSE x

\* line 1303: torch.sort(logits, descending=True) returns the indices in an
\* order of descending values; the order of equal values is not fixed
SortOrders(x) ==
  {perm \in [DOMAIN x -> DOMAIN x] :
     /\ \A a, b \in DOMAIN x : a # b => perm[a] # perm[b]
     /\ \A a, b \in DOMAIN x : a < b => x[perm[a]] >= x[perm[b]]}

\* line 1304: torch.cumsum over the sorted values, up to position j
RECURSIVE CumSum(_, _, _)
CumSum(x, perm, j) ==
  IF j = 0 THEN 0 ELSE x[perm[j]] + CumSum(x, perm, j - 1)

\* variants of lines 1301-1318: without the shift of lines 1311-1314, and
\* with top_p = 0 filtering too
TopPUnshifted(x, p, perm) ==
  IF p > 0
    THEN [t \in DOMAIN x |->
            IF \E j \in DOMAIN x :
                 /\ perm[j] = t
                 /\ CumSum(x, perm, j) * Quanta > p * CumSum(x, perm, Len(x))
              THEN NegInf ELSE x[t]]
    ELSE x
TopPAlways(x, p, perm) ==
  LET order == IF p > 0 THEN perm ELSE CHOOSE o \in SortOrders(x) : TRUE IN
  [t \in DOMAIN x |->
     IF \E j \in DOMAIN x :
          /\ order[j] = t
          /\ j > 1
          /\ CumSum(x, order, j - 1) * Quanta > p * CumSum(x, order, Len(x))
       THEN NegInf ELSE x[t]]

\* lines 1301-1318: the entry at sorted position j is removed when j is not
\* the first position and the cumulative probability up to j - 1 is above
\* top_p
TopP(x, p, perm) ==
  IF p > 0
    THEN [t \in DOMAIN x |->
            IF \E j \in DOMAIN x :
                 /\ perm[j] = t
                 /\ j > 1
                 /\ CumSum(x, perm, j - 1) * Quanta > p * CumSum(x, perm, Len(x))
              THEN NegInf ELSE x[t]]
    ELSE x

\* a variant of lines 1320-1321 that also removes the entries equal to the
\* threshold
AtOrBelowThreshold(x, th) ==
  [t \in DOMAIN x |-> IF x[t] <= th THEN NegInf ELSE x[t]]

\* lines 1320-1321; nothing is below the threshold -inf
BelowThreshold(x, th) == [t \in DOMAIN x |-> IF x[t] < th THEN NegInf ELSE x[t]]

FilterInit ==
  /\ logits \in ScoreVectors
  /\ given = logits
  /\ top_k \in TopKs
  /\ top_p \in 0..Quanta
  /\ threshold \in Thresholds
  /\ sorted_indices = << >>
  /\ filtered = << >>
  /\ fpc = "call"
  /\ TrainIdle
  /\ ChatIdle
  /\ LoopIdle
  /\ persona = << >>
  /\ DecodeIdle
  /\ TwinIdle
  /\ BuildIdle
  /\ LoadIdle

\* the call: the filters write into the tensor they were given (lines 1299,
\* 1318, 1321) and that tensor is returned (line 1323)
Filter ==
  /\ fpc = "call"
  /\ \E perm \in (IF top_p > 0 THEN SortOrders(TopK(logits, top_k))
                               ELSE {<< >>}) :
       /\ sorted_indices' = perm
       /\ logits' = BelowThreshold(TopP(TopK(logits, top_k), top_p, perm),
                                   threshold)
  /\ filtered' = logits'
  /\ fpc' = "returned"
  /\ UNCHANGED <<given, top_k, top_p, threshold>>
  /\ UNCHANGED <<decVars, twin, persona, buildVars, loadVars, trainVars,
               chatVars, loopVars>>

FilterNext == Filter

SpecFilter == FilterInit /\ [][FilterNext]_vars


\* ------------------------------------------------------------------------
\* Claims about top_filtering, stated on the values passed (given) and the
\* value returned (filtered)
\* ------------------------------------------------------------------------
FilterReturned == fpc = "returned"

MaxScoreOf(x) == CHOOSE v \in {x[t] : t \in DOMAIN x} : \A t \in DOMAIN x : x[t] <= v

\* C12: when the vector has a finite entry, top_p > 0 and the threshold is
\* -inf, then for every top_k the result has a finite entry, and one of its
\* finite entries holds the largest score of the input.
C12_KeepsMaximum ==
  (FilterReturned /\ Finite(given) # {} /\ top_p > 0 /\ threshold = NegInf) =>
    \E t \in Finite(filtered) :
      /\ filtered[t] = given[t]
      /\ given[t] = MaxScoreOf(given)

\* the smallest positive top_p, no top-k filter: of several finite entries,
\* the first of them of the largest probability being above top_p, one is left
C12_Witness ==
  /\ FilterReturned
  /\ top_p = 1
  /\ top_k = 0
  /\ threshold = NegInf
  /\ Cardinality(Finite(given)) = VocabSize
  /\ Cardinality(Finite(filtered)) = 1


\* the length of the smallest prefix of the sorted entries whose cumulative
\* probability is at least top_p
NucleusLen(x, perm, p) ==
  CHOOSE n \in DOMAIN x :
    /\ CumSum(x, perm, n) * Quanta >= p * CumSum(x, perm, Len(x))
    /\ \A m \in 1..(n - 1) :
         CumSum(x, perm, m) * Quanta < p * CumSum(x, perm, Len(x))

\* C13: with top_k = 0, threshold = -inf and top_p > 0 the finite entries of
\* the result are exactly the smallest prefix of the descending-sorted
\* entries whose cumulative probability is greater than or equal to top_p,
\* so that no entry survives after a prefix whose cumulative probability is
\* exactly top_p.
C13_SmallestPrefix ==
  (FilterReturned /\ top_k = 0 /\ threshold = NegInf /\ top_p > 0
     /\ Finite(given) # {}) =>
    /\ \A t \in Finite(filtered) : filtered[t] = given[t]
    /\ Finite(filtered) =
         {sorted_indices[j] :
            j \in 1..NucleusLen(given, sorted_indices, top_p)}


\* C14: with top_k > 0, top_p = 0 and threshold = -inf, for every vector of
\* finite scores (tied scores included) exactly min(top_k, vocabulary size)
\* entries of the result are finite, and they are the highest-scoring ones.
C14_ExactlyK ==
  (FilterReturned /\ top_k > 0 /\ top_p = 0 /\ threshold = NegInf
     /\ Finite(given) = DOMAIN given) =>
    /\ Cardinality(Finite(filtered)) = Min(top_k, Len(given))
    /\ \A t \in Finite(filtered) : filtered[t] = given[t]
    /\ \A t \in Finite(filtered), u \in DOMAIN given \ Finite(filtered) :
         given[t] >= given[u]


\* C15: with top_k = 0 or negative, top_p = 0 and threshold = -inf the
\* returned vector equals the given one, entry by entry.
C15_Identity ==
  (FilterReturned /\ top_k <= 0 /\ top_p = 0 /\ threshold = NegInf) =>
    /\ DOMAIN filtered = DOMAIN given
    /\ \A t \in DOMAIN given : filtered[t] = given[t]

\* a negative top_k and a vector of finite scores that are all different
C15_Witness ==
  /\ FilterReturned
  /\ top_k < 0
  /\ top_p = 0
  /\ threshold = NegInf
  /\ Finite(given) = DOMAIN given
  /\ \A t, u \in DOMAIN given : t # u => given[t] # given[u]
  /\ Len(filtered) = VocabSize


\* What each filter lets pass when it is applied alone to a vector x:
\* top-k, the entries with fewer than k entries above them
PassTopK(x, k) ==
  IF k <= 0 THEN Finite(x)
  ELSE {t \in Finite(x) : Cardinality({u \in DOMAIN x : x[u] > x[t]}) < k}

\* top-p, the sorted entries up to the first one at which the cumulative
\* probability is above p
PassTopP(x, p, perm) ==
  IF p <= 0 THEN Finite(x)
  ELSE {perm[j] : j \in {n \in DOMAIN x :
                          \A m \in 1..(n - 1) :
                            CumSum(x, perm, m) * Quanta
                              <= p * CumSum(x, perm, Len(x))}}
         \cap Finite(x)

\* the threshold, the entries that are not below it
PassThreshold(x, th) == {t \in Finite(x) : x[t] >= th}

\* x with the entries outside S set to -inf
Masked(x, S) == [t \in DOMAIN x |-> IF t \in S THEN x[t] ELSE NegInf]

AfterTopK == Masked(given, PassTopK(given, top_k))
AfterTopP == Masked(AfterTopK, PassTopP(AfterTopK, top_p, sorted_indices))

\* C16 as stated: the finite entries of the result are the entries that pass
\* every enabled filter applied alone to the given vector, for some order in
\* which torch.sort can sort that vector.
C16_Intersection ==
  (FilterReturned /\ Finite(given) # {}) =>
    \E perm \in SortOrders(given) :
      Finite(filtered) =
        PassTopK(given, top_k) \cap PassTopP(given, top_p, perm)
          \cap PassThreshold(given, threshold)

\* C16: the finite entries of the result are the entries left by the filters
\* applied in order, top-k to the given vector, top-p to what top-k left
\* (its probabilities are those of softmax over the top-k survivors) and the
\* threshold to what top-p left; they keep their scores, and they are a
\* subset, not always the whole, of the entries that pass every filter
\* applied alone to the given vector.
C16_InOrder ==
  (FilterReturned /\ Finite(given) # {}) =>
    /\ \A t \in Finite(filtered) : filtered[t] = given[t]
    /\ Finite(filtered) = PassThreshold(AfterTopP, threshold)
    /\ \E perm \in SortOrders(given) :
         Finite(filtered) \subseteq
           PassTopK(given, top_k) \cap PassTopP(given, top_p, perm)
             \cap PassThreshold(given, threshold)

\* top-k and top-p both enabled: the second entry passes top-k = 2 alone and
\* top-p = 1/2 alone (the first entry has probability 1/2 of the given
\* vector), and is removed because the first entry has probability 3/5 of
\* what top-k left
C16_Witness ==
  /\ FilterReturned
  /\ given = <<3, 2, 1>>
  /\ top_k = 2
  /\ 2 * top_p = Quanta
  /\ threshold = NegInf
  /\ Finite(filtered) = {1}


\* C17: top_filtering is a pure function: after the call the tensor passed
\* as logits holds the values it held before the call, the filtered values
\* being returned separately.
C17_ArgumentUntouched == FilterReturned => logits = given


\* ------------------------------------------------------------------------
\* Claims about the loop of load_and_cache_examples, stated on the stored
\* dataset and on the instances each step appends
\* ------------------------------------------------------------------------
\* the positions of the speaker tokens of an encoded instance, in order
SpeakerPositions(ids) == {n \in 1..Len(ids) : ids[n] \in {speaker1, speaker2}}
NthSpeaker(ids, k) ==
  CHOOSE n \in SpeakerPositions(ids) :
    Cardinality({m \in SpeakerPositions(ids) : m < n}) = k - 1

\* the history segments of an encoded instance: what stands between two
\* consecutive speaker tokens
EncodedHistory(ids) ==
  [k \in 1..(Cardinality(SpeakerPositions(ids)) - 1) |->
     SubSeq(ids, NthSpeaker(ids, k) + 1, NthSpeaker(ids, k + 1) - 1)]

EncodesUtterance == lpc = "loop" /\ utterance' = utterance + 1

C18_Window ==
  EncodesUtterance =>
    LET hist == dataset[dialog].utterances[utterance].history
        w == Min(Len(hist), 2 * max_history + 1)
        old == Len(datasets.input_ids)
    IN /\ Len(datasets'.input_ids) > old
       /\ \A k \in (old + 1)..Len(datasets'.input_ids) :
            EncodedHistory(datasets'.input_ids[k])
              = SubSeq(hist, Len(hist) - w + 1, Len(hist))
       /\ dataset' = dataset

\* C18: the history encoded in every instance of an utterance is the last
\* min(len(history), 2 * max_history + 1) entries of the utterance's history
\* in their order, for every max_history >= 0, and the stored history is not
\* modified.
C18_HistoryWindow == [][C18_Window]_vars

\* max_history = 0 and a second utterance whose history has three entries:
\* the instance encodes the last entry only
C18_Witness ==
  /\ lpc = "loop"
  /\ utterance = 3
  /\ max_history = 0
  /\ Len(dataset[dialog].utterances[2].history) = 3
  /\ EncodedHistory(datasets.input_ids[Len(datasets.input_ids)])
       = << <<7, 8, 9>> >>


\* pers rotated cyclically by p positions, the last sentence coming first
RotatedBy(pers, p) ==
  [k \in 1..Len(pers) |-> pers[((k - 1 - p) % Len(pers)) + 1]]

\* the persona block of an encoded instance: what stands after <bos> and
\* before the first speaker token
EncodedPersona(ids) == SubSeq(ids, 2, NthSpeaker(ids, 1) - 1)

Occurrences(xs, x) == Cardinality({k \in 1..Len(xs) : xs[k] = x})

C19_Pass ==
  EncodesUtterance =>
    LET stored == dataset[dialog].personality
        old == Len(datasets.input_ids)
    IN /\ persona = RotatedBy(stored, permutation)
       /\ \A k \in (old + 1)..Len(datasets'.input_ids) :
            EncodedPersona(datasets'.input_ids[k])
              = Flatten(RotatedBy(stored, permutation))
       /\ Len(persona) = Len(stored)
       /\ \A n \in 1..Len(stored) :
            Occurrences(persona, stored[n]) = Occurrences(stored, stored[n])
       /\ permutation % Len(stored) = 0 => persona = stored
       /\ dataset' = dataset

\* C19: in the p-th pass over a dialogue (p from 0) the persona is the
\* dialogue's personality rotated cyclically by p positions, the last
\* sentence moving to the front at each pass: it holds the same sentences
\* with the same multiplicities, it is in the original order whenever p is a
\* multiple of the number of sentences, and the stored personality is never
\* modified.
C19_Rotation == [][C19_Pass]_vars

\* the third pass (p = 2) over a dialogue of two sentences: the persona is in
\* the original order again, after a pass that encoded the rotated one
C19_Witness ==
  /\ lpc = "loop"
  /\ permutation = 2
  /\ utterance = 2
  /\ Len(dataset[dialog].personality) = 2
  /\ persona = dataset[dialog].personality
  /\ EncodedPersona(datasets.input_ids[Len(datasets.input_ids)])
       = Flatten(persona)
  /\ \E k \in 1..Len(datasets.input_ids) :
       EncodedPersona(datasets.input_ids[k]) = Flatten(Rotated(persona))


\* ------------------------------------------------------------------------
\* train_model (lines 200-294) and the start of train (lines 296-520): the
\* order of the configuration checks and of the effects
\* ------------------------------------------------------------------------
MaxSteps == 2

ModelTypes == {"gpt", "gpt2", "blender", "blender-small"}
\* lines 386-411
ValidOptimizers == {"AdamW", "Adafactor"}
\* lines 413-454
ValidSchedulers ==
  {"constant_schedule", "constant_schedule_with_warmup",
   "linear_schedule_with_warmup", "cosine_schedule_with_warmup",
   "cosine_with_hard_restarts_schedule_with_warmup",
   "polynomial_decay_schedule_with_warmup"}

TrainInit ==
  /\ model_type \in ModelTypes
  /\ dir_not_empty \in BOOLEAN
  /\ overwrite_output_dir \in BOOLEAN
  /\ optimizer \in ValidOptimizers \cup {"SGD"}
  /\ scheduler \in ValidSchedulers \cup {"step_schedule"}
  /\ evaluate_during_training \in BOOLEAN
  /\ tpc = "model_type"
  /\ loads = 0
  /\ dir_made = FALSE
  /\ forwards = 0
  /\ saved = FALSE
  /\ persona = << >>
  /\ DecodeIdle
  /\ TwinIdle
  /\ BuildIdle
  /\ LoadIdle
  /\ FilterIdle
  /\ ChatIdle
  /\ LoopIdle

TrainArgsUnchanged ==
  UNCHANGED <<model_type, dir_not_empty, overwrite_output_dir, optimizer,
              scheduler, evaluate_during_training, decVars, twin, persona,
              buildVars, loadVars, filterVars, chatVars, loopVars>>

\* lines 228-231
CheckModelType ==
  /\ tpc = "model_type"
  /\ tpc' = IF model_type \in {"blender-small", "blender"}
              THEN "raised" ELSE "output_dir"
  /\ UNCHANGED <<loads, dir_made, forwards, saved>>
  /\ TrainArgsUnchanged

\* lines 246-257
CheckOutputDir ==
  /\ tpc = "output_dir"
  /\ tpc' = IF dir_not_empty /\ ~overwrite_output_dir
              THEN "raised" ELSE "load_train"
  /\ UNCHANGED <<loads, dir_made, forwards, saved>>
  /\ TrainArgsUnchanged

\* lines 260-264
LoadTrain ==
  /\ tpc = "load_train"
  /\ loads' = loads + 1
  /\ tpc' = IF evaluate_during_training THEN "load_eval" ELSE "makedirs"
  /\ UNCHANGED <<dir_made, forwards, saved>>
  /\ TrainArgsUnchanged

\* lines 266-272
LoadEval ==
  /\ tpc = "load_eval"
  /\ loads' = loads + 1
  /\ tpc' = "makedirs"
  /\ UNCHANGED <<dir_made, forwards, saved>>
  /\ TrainArgsUnchanged

\* line 276
MakeDirs ==
  /\ tpc = "makedirs"
  /\ dir_made' = TRUE
  /\ tpc' = "optimizer"
  /\ UNCHANGED <<loads, forwards, saved>>
  /\ TrainArgsUnchanged

\* train, lines 386-411
ChooseOptimizer ==
  /\ tpc = "optimizer"
  /\ tpc' = IF optimizer \in ValidOptimizers THEN "scheduler" ELSE "raised"
  /\ UNCHANGED <<loads, dir_made, forwards, saved>>
  /\ TrainArgsUnchanged

\* train, lines 413-454
ChooseScheduler ==
  /\ tpc = "scheduler"
  /\ tpc' = IF scheduler \in ValidSchedulers THEN "batches" ELSE "raised"
  /\ UNCHANGED <<loads, dir_made, forwards, saved>>
  /\ TrainArgsUnchanged

\* train, lines 500-523: the forward pass of one batch
TrainStep ==
  /\ tpc = "batches"
  /\ forwards < MaxSteps
  /\ forwards' = forwards + 1
  /\ UNCHANGED <<tpc, loads, dir_made, saved>>
  /\ TrainArgsUnchanged

\* train returns; line 287
SaveModel ==
  /\ tpc = "batches"
  /\ saved' = TRUE
  /\ tpc' = "done"
  /\ UNCHANGED <<loads, dir_made, forwards>>
  /\ TrainArgsUnchanged

TrainNext ==
  \/ CheckModelType
  \/ CheckOutputDir
  \/ LoadTrain
  \/ LoadEval
  \/ MakeDirs
  \/ ChooseOptimizer
  \/ ChooseScheduler
  \/ TrainStep
  \/ SaveModel

SpecTrain == TrainInit /\ [][TrainNext]_vars

\* C20: every configuration error (a Blender model type, an output
\* directory that is not empty without overwrite_output_dir, an invalid
\* optimizer name, an invalid scheduler name) raises ValueError before a
\* dataset is loaded and encoded, before the output directory is created,
\* and before any forward pass or save of the model.
C20_FailFast ==
  tpc = "raised" => loads = 0 /\ ~dir_made /\ forwards = 0 /\ ~saved


\* ------------------------------------------------------------------------
\* interact (lines 1030-1104) and interact_single (lines 1106-1175) on a
\* gpt/gpt2 model.  A text is a sequence of words; the tokenizer encodes the
\* word "a" as 5 and "b" as 6 and decodes token ids into their words.
\* ------------------------------------------------------------------------
MaxTurns == 3

Encode(text) == [k \in 1..Len(text) |-> IF text[k] = "a" THEN 5 ELSE 6]

SpecialWord(t) ==
  CASE t = bos -> "<bos>" [] t = eos -> "<eos>" [] t = speaker1 -> "<speaker1>"
    [] t = speaker2 -> "<speaker2>" [] OTHER -> "<pad>"

\* tokenizer.decode(ids, skip_special_tokens=skip)
RECURSIVE Decode(_, _)
Decode(ids, skip) ==
  IF ids = << >> THEN << >>
  ELSE LET t == Head(ids)
           word == IF t \in special_tokens_ids
                     THEN (IF skip THEN << >> ELSE <<SpecialWord(t)>>)
                     ELSE <<IF t = 5 THEN "a" ELSE "b">>
       IN word \o Decode(Tail(ids), skip)

EncodeAll(texts) == [k \in 1..Len(texts) |-> Encode(texts[k])]

\* the messages typed or passed, and the replies sample_sequence can return
Messages == {<<"a">>, <<"b", "a">>}
Responses == {Tokens(4, n) : n \in 0..MaxTokens}
FirstHistories == {<< >>, << <<"a">> >>, << <<"a">>, <<"b">> >>}

ChatInit ==
  /\ entry \in {"interact", "interact_single"}
  /\ encode_history \in (IF entry = "interact" THEN {FALSE} ELSE BOOLEAN)
  /\ skip_special_tokens \in BOOLEAN
  /\ max_history \in 0..MaxMaxHistory
  /\ first_history \in
       (IF entry = "interact" THEN {<< >>}
        ELSE IF encode_history THEN FirstHistories
        ELSE {EncodeAll(h) : h \in FirstHistories})
  /\ turn_history = first_history
  /\ spoken = IF encode_history THEN EncodeAll(first_history) ELSE first_history
  /\ message = << >>
  /\ sampled_history = << >>
  /\ out_ids = << >>
  /\ out_text = << >>
  /\ turns = 0
  /\ dataset = << >>
  /\ args_num_candidates = 0
  /\ personality_permutations = 0
  /\ evaluate = FALSE
  /\ num_candidates = 0
  /\ lpc = "idle"
  /\ dialog = 0
  /\ permutation = 0
  /\ utterance = 0
  /\ datasets = NoDatasets
  /\ persona = << >>
  /\ DecodeIdle
  /\ TwinIdle
  /\ BuildIdle
  /\ FilterIdle
  /\ TrainIdle
  /\ LoopIdle

ChatArgsUnchanged ==
  UNCHANGED <<entry, encode_history, skip_special_tokens, first_history,
              decVars, twin, persona, buildVars, loadVars, filterVars,
              trainVars, loopVars>>

\* one turn of the loop of interact, lines 1075-1104
InteractTurn ==
  /\ entry = "interact"
  /\ turns < MaxTurns
  /\ \E m \in Messages, out \in Responses :
       /\ message' = m
       /\ sampled_history' = Append(turn_history, Encode(m))
       /\ out_ids' = out
       /\ turn_history' =
            LastN(Append(Append(turn_history, Encode(m)), out),
                  2 * max_history + 1)
       /\ out_text' = Decode(out, skip_special_tokens)
       /\ spoken' = spoken \o <<Encode(m), out>>
  /\ turns' = turns + 1
  /\ ChatArgsUnchanged

\* variants of the history interact_single returns: the response before the
\* message
SingleHistorySwapped(h, m, out, text, enc) ==
  IF enc THEN h \o <<text, m>> ELSE h \o <<out, Encode(m)>>

\* lines 1150-1153 and 1168-1173: the history interact_single returns
SingleHistory(h, m, out, text, enc) ==
  IF enc THEN Append(Append(h, m), text)
  ELSE Append(Append(h, Encode(m)), out)

\* one call of interact_single on the history the previous call returned
InteractSingle ==
  /\ entry = "interact_single"
  /\ turns < MaxTurns
  /\ \E m \in Messages, out \in Responses :
       /\ message' = m
       /\ sampled_history' =
            Append(IF encode_history THEN EncodeAll(turn_history)
                   ELSE turn_history, Encode(m))
       /\ out_ids' = out
       /\ out_text' = Decode(out, skip_special_tokens)
       /\ turn_history' =
            SingleHistory(turn_history, m, out,
                          Decode(out, skip_special_tokens), encode_history)
       /\ spoken' = spoken \o <<Encode(m), out>>
  /\ turns' = turns + 1
  /\ ChatArgsUnchanged

ChatNext == InteractTurn \/ InteractSingle

SpecChat == ChatInit /\ [][ChatNext]_vars

C21_Call ==
  (entry = "interact_single" /\ turns' = turns + 1) =>
    /\ out_text' = Decode(out_ids', skip_special_tokens)
    /\ Len(turn_history') = Len(turn_history) + 2
    /\ SubSeq(turn_history', 1, Len(turn_history)) = turn_history
    /\ turn_history'[Len(turn_history) + 1]
         = (IF encode_history THEN message' ELSE Encode(message'))
    /\ turn_history'[Len(turn_history) + 2]
         = (IF encode_history THEN out_text' ELSE out_ids')

C21_Length ==
  entry = "interact_single" =>
    Len(turn_history) = Len(first_history) + 2 * turns

\* C21: interact_single returns (out_text, history') where history' is the
\* given history followed by the new message and then the response, in the
\* form of the given history (texts with encode_history, token ids without);
\* after n calls that each get the history the call before returned, the
\* history has the initial length plus 2n.
C21_HistoryGrowsByTwo == [][C21_Call]_vars /\ []C21_Length

\* two calls on a history of texts that was not empty, the second response
\* not empty
C21_Witness ==
  /\ entry = "interact_single"
  /\ encode_history
  /\ turns = 2
  /\ Len(first_history) = 1
  /\ Len(turn_history) = 5
  /\ turn_history[4] = <<"b", "a">>
  /\ turn_history[5] = <<"a", "b">>


\* the utterances up to the newest message: everything spoken but the
\* response to that message
UpToMessage == SubSeq(spoken, 1, Len(spoken) - 1)

\* C25: at every call of sample_sequence made by interact or by
\* interact_single, over any number of turns, the history passed holds at
\* most 2 * max_history + 1 utterances, its last utterance is the user's
\* newest message, and its utterances are the most recent ones in their
\* order.
C25_BoundedHistory ==
  turns > 0 =>
    /\ Len(sampled_history) <= 2 * max_history + 1
    /\ sampled_history[Len(sampled_history)] = Encode(message)
    /\ sampled_history
         = SubSeq(UpToMessage, Len(UpToMessage) - Len(sampled_history) + 1,
                  Len(UpToMessage))


\* ------------------------------------------------------------------------
\* sample_sequence together with its calls of build_input_from_segments
\* (line 1353): the lists the caller passed (persona, history) and the list
\* current_output, which is passed to build_input_from_segments as reply
\* ------------------------------------------------------------------------
\* a variant in which the reply is appended to the history list itself
ArgumentsAliased(p, h, r, we) ==
  [persona |-> p, history |-> Append(h, r), reply |-> r]

\* the lists passed to build_input_from_segments after the call: lines
\* 1239-1247 build sequence with list concatenations, which make new lists
\* and leave their operands as they were
ArgumentsAfterBuild(p, h, r, we) == [persona |-> p, history |-> h, reply |-> r]

FrameInit ==
  /\ DecodeInit
  /\ persona \in {<< <<5>> >>, << <<5>>, <<6>> >>}
  /\ history \in {<< <<7>> >>, << <<7>>, <<8>>, <<7>> >>}
  /\ reply = << >>
  /\ labels = FALSE
  /\ with_eos = FALSE
  /\ instance = NoInstance
  /\ bpc = "idle"
  /\ TwinIdle
  /\ LoadIdle
  /\ FilterIdle
  /\ TrainIdle
  /\ ChatIdle
  /\ LoopIdle

\* lines 1353-1376 and, when the while loop is not entered, 1385-1387
FrameForward ==
  /\ pc = "for"
  /\ i < max_length
  /\ instance' = BuildInput(persona, history, current_output, FALSE, FALSE)
  /\ LET after == ArgumentsAfterBuild(persona, history, current_output, FALSE)
     IN /\ persona' = after.persona
        /\ history' = after.history
        /\ \E d \in Dists : \E p \in FirstPicks(d) :
             SetSelf(Picked([Self EXCEPT !.current_output = after.reply], d, p))
  /\ ArgsUnchanged
  /\ UNCHANGED <<twin, reply, labels, with_eos, bpc, loadVars, filterVars,
                 trainVars, chatVars, loopVars>>

FrameNext == FrameForward \/ While \/ Return

SpecFrame == FrameInit /\ [][FrameNext]_vars

C22_Step ==
  /\ persona' = persona
  /\ history' = history
  /\ \/ current_output' = current_output
     \/ \E t \in Vocab : current_output' = Append(current_output, t)

\* C22: sample_sequence and build_input_from_segments never modify the
\* persona, the history or an utterance they are given: in every step of a
\* decode run the caller's persona and history keep their values, and the
\* only sequence that grows is current_output, by the token of the
\* iteration.
C22_CallerListsUntouched == [][C22_Step]_vars

\* a run that returned two tokens: the instance of its second iteration was
\* built from the three history utterances and a reply of one token
C22_Witness ==
  /\ pc = "done"
  /\ Len(current_output) = 2
  /\ Len(history) = 3
  /\ Len(persona) = 2
  /\ Len(instance.input_ids) = 11


\* ------------------------------------------------------------------------
\* The token types of the persona block (build_input_from_segments)
\* ------------------------------------------------------------------------
\* C23 as stated: for every history length the token_type_ids of all
\* persona-block tokens equal the speaker token that starts the first
\* non-persona segment.
C23_PersonaFollowsFirstRole ==
  Returned =>
    \A n \in 1..BlockLen :
      instance.token_type_ids[n] = instance.input_ids[SegStart(1)]

\* C23: for every history length the token_type_ids of all persona-block
\* tokens equal <speaker1>, the speaker token that starts the reply segment;
\* they equal the speaker token that starts the first non-persona segment
\* exactly when the history has an even number of utterances.
C23_PersonaIsSpeaker1 ==
  Returned =>
    /\ \A n \in 1..BlockLen :
         /\ instance.token_type_ids[n] = speaker1
         /\ instance.token_type_ids[n] = instance.input_ids[SegStart(ReplySeg)]
    /\ instance.token_type_ids[1] = instance.input_ids[SegStart(1)]
         <=> Len(history) % 2 = 0

\* a history of one utterance: the first non-persona segment starts with
\* <speaker2>, the persona block has type <speaker1>
C23_Witness ==
  /\ Returned
  /\ Len(history) = 1
  /\ BlockLen >= 3
  /\ instance.input_ids[SegStart(1)] = speaker2
  /\ \A n \in 1..BlockLen : instance.token_type_ids[n] = speaker1


\* ------------------------------------------------------------------------
\* The groups of instances that the view of lines 973-977 makes of the flat
\* lists: group k is the k-th run of n_candidates consecutive instances
\* ------------------------------------------------------------------------
\* the reply an instance encodes: what stands after its last speaker token,
\* without the final <eos>
EncodedReply(ids) ==
  SubSeq(ids, NthSpeaker(ids, Cardinality(SpeakerPositions(ids))) + 1,
         Len(ids) - 1)

C24_Turn ==
  EncodesUtterance =>
    LET n == datasets'.n_candidates
        turn == Len(datasets'.mc_labels)
        cands == dataset[dialog].utterances[utterance].candidates
    IN /\ turn = Len(datasets.mc_labels) + 1
       /\ Len(datasets'.input_ids) = n * turn
       /\ \A j \in 1..n :
            /\ j <= Len(cands)
            /\ EncodedReply(datasets'.input_ids[n * (turn - 1) + j])
                 = cands[Len(cands) - n + j]
       /\ datasets'.mc_labels[turn] = n - 1
       /\ \E k \in 1..Len(datasets'.labels[n * (turn - 1) + (n - 1) + 1]) :
            datasets'.labels[n * (turn - 1) + (n - 1) + 1][k] # IGNORE

\* C24: when every utterance has at least one candidate, the number of
\* instances is n_candidates times the number of mc_labels entries, the
\* k-th group of n_candidates consecutive instances holds the candidates of
\* the k-th encoded turn, and every mc_labels entry is n_candidates - 1, the
\* index of the gold instance in its group.
C24_GroupsOfCandidates == [][C24_Turn]_vars


\* ------------------------------------------------------------------------
\* mc_token_ids across the padding step of load_and_cache_examples;
\* mc_token_ids is an index counted from 0
\* ------------------------------------------------------------------------
C26_PadStep ==
  (lpc = "pad" /\ lpc' = "done") =>
    /\ datasets'.mc_token_ids = datasets.mc_token_ids
    /\ datasets'.mc_labels = datasets.mc_labels
    /\ datasets'.n_candidates = datasets.n_candidates
    /\ \A k \in 1..Len(datasets.input_ids) :
         LET unpadded == datasets.input_ids[k]
             at == datasets'.mc_token_ids[k]
         IN /\ at < Len(unpadded)
            /\ datasets'.input_ids[k][at + 1] = unpadded[Len(unpadded)]
            /\ datasets'.input_ids[k][at + 1] = eos

\* C26: after pad_dataset every instance's mc_token_ids is unchanged, is
\* smaller than the unpadded length of the instance, and indexes the last
\* token of the unpadded sequence, never an appended padding position;
\* mc_labels and n_candidates are unchanged.
C26_ClassifierPosition == [][C26_PadStep]_vars

\* a padded dataset with an instance that was extended: its mc_token_ids
\* still indexes its <eos>, before the padding
C26_Witness ==
  /\ lpc = "done"
  /\ datasets.mc_labels # << >>
  /\ \E k \in 1..Len(datasets.input_ids) :
       /\ datasets.input_ids[k][Len(datasets.input_ids[k])] = pad
       /\ datasets.mc_token_ids[k] + 1 < Len(datasets.input_ids[k])
       /\ datasets.input_ids[k][datasets.mc_token_ids[k] + 1] = eos


\* ------------------------------------------------------------------------
\* The loop of train (lines 460-786): the optimizer steps, the evaluations
\* during training and early stopping.  A metric value is a natural number.
\* ------------------------------------------------------------------------
MaxBatches == 3
MaxAccumulation == 2
MaxEpochs == 2
MaxEvalSteps == 1
MaxPatience == 1
MaxDelta == 1
MaxMetric == 2

Metrics == 0..MaxMetric

\* "not best_eval_metric" is true of None and of 0
Falsy(best) == best = NoMetric \/ best = 0

\* lines 636-639 and 756-758
BestOrFirst(best, r) == IF Falsy(best) THEN r ELSE best

\* the tests of lines 641-645 / 681-685 and 759-763 / 769-773
Better(b, r) ==
  IF ~Falsy(b) /\ early_stopping_metric_minimize
    THEN r - b < early_stopping_delta
    ELSE r - b > early_stopping_delta

\* lines 636-705: best_eval_metric, early_stopping_counter and whether
\* train returns, after a step-level evaluation whose metric is r
StepEval(best, counter, r) ==
  LET b == BestOrFirst(best, r) IN
  IF Better(b, r)
    THEN [best |-> r, counter |-> 0, stop |-> FALSE]
    ELSE IF use_early_stopping
      THEN IF counter < early_stopping_patience
             THEN [best |-> b, counter |-> counter + 1, stop |-> FALSE]
             ELSE [best |-> b, counter |-> counter, stop |-> TRUE]
      ELSE [best |-> b, counter |-> counter, stop |-> FALSE]

\* lines 756-778: the same after an evaluation at the end of an epoch
EpochEval(best, counter, r) ==
  LET b == BestOrFirst(best, r) IN
  IF Better(b, r)
    THEN [best |-> r, counter |-> 0]
    ELSE [best |-> b, counter |-> counter]

\* where the loops go at the start and after an epoch
LoopEntry(epochs_done) ==
  IF epochs_done < num_train_epochs THEN "batch" ELSE "return"

LoopInit ==
  /\ len_dataloader \in 1..MaxBatches
  /\ gradient_accumulation_steps \in 1..MaxAccumulation
  /\ num_train_epochs \in 1..MaxEpochs
  /\ evaluate_during_training \in BOOLEAN
  /\ evaluate_during_training_steps \in 0..MaxEvalSteps
  /\ evaluate_each_epoch \in BOOLEAN
  /\ use_early_stopping \in BOOLEAN
  /\ early_stopping_patience \in 0..MaxPatience
  /\ early_stopping_metric_minimize \in BOOLEAN
  /\ early_stopping_delta \in 0..MaxDelta
  /\ tlp = LoopEntry(0)
  /\ epoch_number = 0
  /\ step = 0
  /\ global_step = 0
  /\ optimizer_steps = 0
  /\ scheduler_steps = 0
  /\ best_eval_metric = NoMetric
  /\ early_stopping_counter = 0
  /\ results = NoMetric
  /\ seen_metrics = {}
  /\ model_type = "gpt"
  /\ dir_not_empty = FALSE
  /\ overwrite_output_dir = FALSE
  /\ optimizer = "AdamW"
  /\ scheduler = "linear_schedule_with_warmup"
  /\ tpc = "train"
  /\ loads = 0
  /\ dir_made = FALSE
  /\ forwards = 0
  /\ saved = FALSE
  /\ persona = << >>
  /\ DecodeIdle
  /\ TwinIdle
  /\ BuildIdle
  /\ LoadIdle
  /\ FilterIdle
  /\ ChatIdle

LoopArgsUnchanged ==
  UNCHANGED <<len_dataloader, gradient_accumulation_steps, num_train_epochs,
              evaluate_during_training_steps, evaluate_each_epoch,
              use_early_stopping, early_stopping_patience,
              early_stopping_metric_minimize, early_stopping_delta,
              decVars, twin, persona, buildVars, loadVars, filterVars,
              trainVars, chatVars>>

\* one batch, lines 499-720
Batch ==
  /\ tlp = "batch"
  /\ step < len_dataloader
  /\ step' = step + 1
  /\ LET stepping == (step + 1) % gradient_accumulation_steps = 0
         gs == IF stepping THEN global_step + 1 ELSE global_step
         evaluating == /\ stepping
                       /\ evaluate_during_training
                       /\ evaluate_during_training_steps > 0
                       /\ gs % evaluate_during_training_steps = 0
         next == IF step + 1 < len_dataloader THEN "batch" ELSE "epoch_end"
     IN /\ global_step' = gs
        /\ optimizer_steps' = IF stepping THEN optimizer_steps + 1
                                          ELSE optimizer_steps
        /\ scheduler_steps' = IF stepping THEN scheduler_steps + 1
                                          ELSE scheduler_steps
        /\ IF evaluating
             THEN \E r \in Metrics :
                    LET e == StepEval(best_eval_metric,
                                      early_stopping_counter, r)
                    IN /\ results' = r
                       /\ seen_metrics' = seen_metrics \cup {r}
                       /\ best_eval_metric' = e.best
                       /\ early_stopping_counter' = e.counter
                       /\ tlp' = IF e.stop THEN "stopped" ELSE next
             ELSE /\ tlp' = next
                  /\ UNCHANGED <<results, seen_metrics, best_eval_metric,
                                 early_stopping_counter>>
  /\ UNCHANGED epoch_number
  /\ LoopArgsUnchanged

\* the end of an epoch, lines 722-779
EpochEnd ==
  /\ tlp = "epoch_end"
  /\ epoch_number' = epoch_number + 1
  /\ step' = 0
  /\ tlp' = LoopEntry(epoch_number + 1)
  /\ IF evaluate_during_training /\ evaluate_each_epoch
       THEN \E r \in Metrics :
              LET e == EpochEval(best_eval_metric, early_stopping_counter, r)
              IN /\ results' = r
                 /\ seen_metrics' = seen_metrics \cup {r}
                 /\ best_eval_metric' = e.best
                 /\ early_stopping_counter' = e.counter
       ELSE UNCHANGED <<results, seen_metrics, best_eval_metric,
                        early_stopping_counter>>
  /\ UNCHANGED <<global_step, optimizer_steps, scheduler_steps>>
  /\ LoopArgsUnchanged

\* lines 781-786: tr_loss / global_step is evaluated when
\* evaluate_during_training is off, and raises ZeroDivisionError for
\* global_step = 0
ReturnTrain ==
  /\ tlp = "return"
  /\ tlp' = IF ~evaluate_during_training /\ global_step = 0
              THEN "raised" ELSE "returned"
  /\ UNCHANGED <<epoch_number, step, global_step, optimizer_steps,
                 scheduler_steps, best_eval_metric, early_stopping_counter,
                 results, seen_metrics>>
  /\ LoopArgsUnchanged

LoopNext == Batch \/ EpochEnd \/ ReturnTrain

SpecLoop == LoopInit /\ [][LoopNext]_vars


\* a step of the loop that runs the step-level evaluation of lines 594-597
StepEvaluates ==
  /\ tlp = "batch"
  /\ (step + 1) % gradient_accumulation_steps = 0
  /\ evaluate_during_training
  /\ evaluate_during_training_steps > 0
  /\ (global_step + 1) % evaluate_during_training_steps = 0

\* a step of the loop that runs the evaluation at the end of an epoch
EpochEvaluates ==
  tlp = "epoch_end" /\ evaluate_during_training /\ evaluate_each_epoch

\* a result r improves on the best metric so far: it is better by the margin
\* early_stopping_delta; the first result is compared with itself
ImprovesOn(best, r) ==
  LET b == IF best = NoMetric THEN r ELSE best IN
  IF early_stopping_metric_minimize
    THEN r - b < early_stopping_delta
    ELSE r - b > early_stopping_delta

C27_Step ==
  evaluate_during_training /\ use_early_stopping =>
    /\ StepEvaluates =>
         (tlp' = "stopped"
            <=> /\ ~ImprovesOn(best_eval_metric, results')
                /\ early_stopping_counter = early_stopping_patience)
    /\ (StepEvaluates \/ EpochEvaluates)
         /\ ImprovesOn(best_eval_metric, results')
         => early_stopping_counter' = 0
    /\ early_stopping_counter' <= early_stopping_patience
    /\ tlp = "epoch_end" => tlp' # "stopped"

BestSeen ==
  IF early_stopping_metric_minimize
    THEN CHOOSE m \in seen_metrics : \A n \in seen_metrics : m <= n
    ELSE CHOOSE m \in seen_metrics : \A n \in seen_metrics : m >= n

TTotal == (len_dataloader \div gradient_accumulation_steps) * num_train_epochs

\* train has run through all its epochs and reached its last return
Completed == tlp \in {"returned", "raised"}

\* C29: when train runs to completion without early stopping, the returned
\* global_step equals t_total = (len(train_dataloader) //
\* gradient_accumulation_steps) * num_train_epochs, the optimizer and the
\* scheduler have each been stepped global_step times, and train returns a
\* value, with no division by zero, also when len(train_dataloader) is less
\* than gradient_accumulation_steps.
C29_CompletedSteps ==
  Completed =>
    /\ global_step = TTotal
    /\ optimizer_steps = global_step
    /\ scheduler_steps = global_step
    /\ tlp = "returned"

====
